---- MODULE Spec2Model ----
(***************************************************************************)
(* Conversation identity and synchronisation of the messaging client.      *)
(*                                                                         *)
(*   SpecKey     the canonical pair / key computation of handleCreateChat  *)
(*   SpecDir     AllUsers: the user directory and get-or-create of a chat, *)
(*               run by two devices against one remote chats collection    *)
(*   SpecDirSeq  the same, with at most one get-or-create in flight        *)
(*   SpecDirOut  SpecDirSeq where a device's user may sign out             *)
(*   SpecList    one device's session: sign-in, the ChatList screen with   *)
(*               its chats listener and AsyncStorage cache, sign-out from  *)
(*               ChatList and from ChatScreen                              *)
(*   SpecMsg     ChatScreen: the messages listener and sendMessage against *)
(*               the messages collection                                   *)
(*   FairSpecMsg the same, where an open listener's pending snapshot is    *)
(*               delivered                                                 *)
(*   FairSpecList                                                          *)
(*               SpecList where what is pending on the device runs         *)
(*   SpecSubs    the behaviours of SpecList and those of SpecMsg           *)
(*   SpecMsgNav  SpecMsg with more than one chat: ChatScreen is left and   *)
(*               opened again for another chat                             *)
(*                                                                         *)
(* Strings that the code compares or joins (uids) are sequences of UTF-16  *)
(* code units, compared as Array.prototype.sort compares them.             *)
(***************************************************************************)
EXTENDS Naturals, Sequences, FiniteSets

VARIABLES
  \* ---- canonical key, as a pure computation
  ka, kb,            \* the two participant ids handed to the computation
  kout,              \* its results for (ka,kb) and for (kb,ka); NoResult before
  \* ---- AllUsers screen, one per device, and the remote chats collection
  variant,           \* which AllUsers source a device runs: "equality" | "scan"
  dirCurrentUser,    \* useState currentUser
  users,             \* useState users: the directory list shown
  dirLoading,        \* useState loading
  usersSub,          \* the onSnapshot listener opened by fetchUsers
  pc,                \* where the device's handleCreateChat is: idle|query|create|createMsg
  call,              \* the running (or last) handleCreateChat: otherUser, members,
                     \* and the chat id it gave to router.push (NoChat: none)
  signedIn,          \* whether the device's user is still signed in
  chatDocs,          \* remote collection .../chats: doc id = index
  \* ---- one device's session and its ChatList screen
  listVariant,       \* which ChatList source runs: "cached" | "plain"
  authUser,          \* the identity service's signed-in user (auth.currentUser)
  route,             \* the screen on top of the stack: login|chatlist|allusers|chat
  listMounted,       \* a ChatList is in the stack
  listAuthSeen,      \* the user ChatList's onAuthStateChanged listener was last called with
  currentUser,       \* ChatList useState currentUser
  authLoading,       \* ChatList useState authLoading
  chats,             \* ChatList useState chats
  loading,           \* ChatList useState loading
  refreshing,        \* ChatList useState refreshing
  chatsSub,          \* the effect's onSnapshot listener: open, uid of the query, and
                     \* whether the server holds a result it has not delivered yet
  cachePending,      \* loadCachedChats is awaiting AsyncStorage.getItem
  cache,             \* AsyncStorage at STORAGE_KEY
  storeResult,       \* how the setItem of the last snapshot callback ended:
                     \* none (it called none) | ok | failed
  logoutPc,          \* ChatList handleLogout: idle | signedOut (before removeItem)
  cacheOps,          \* history: how this ChatList's getItem and the last removeItem
                     \* ended: "none" | "ok" | "failed"
  srvChats,          \* the chats collection as the device's queries see it, in
                     \* lastMessageTimestamp descending order
  \* ---- ChatScreen and the messages collection it reads and writes
  msgCurrentUser,    \* ChatScreen useState currentUser
  messages,          \* ChatScreen useState messages
  input,             \* ChatScreen useState input
  msgLoading,        \* ChatScreen useState loading
  msgSub,            \* the effect's onSnapshot listener: open, and whether the
                     \* device's view holds a result it has not delivered yet
  srvMsgs,           \* .../chats/general_chat/messages as the device sees it, in
                     \* timestamp ascending order, its own unacknowledged writes last
  nextMsgId,         \* number of message documents created so far
  clock,             \* the server's last assigned timestamp
  sentInput,         \* history: for each message id, the input it was sent from
  dropped,           \* history: the last snapshot lacked an entry the list held
  sendOutcome,       \* history: what the last sendMessage call did:
                     \* "none" | "returned" (line 555) | "added" (its addDoc is issued)
  openChat,          \* the chatId of the route ChatScreen is mounted for
  chatRecs,          \* the chat documents the routes can name: lastMessageText,
                     \* lastMessageTimestamp
  sentIn             \* history: for each message id, the chatId of the route its
                     \* sender's ChatScreen was mounted for

keyVars == <<ka, kb, kout>>
dirVars == <<variant, dirCurrentUser, users, dirLoading, usersSub, pc, call, signedIn,
             chatDocs>>
listState == <<currentUser, authLoading, chats, loading, refreshing>>
listVars == <<listVariant, authUser, route, listMounted, listAuthSeen, listState,
              chatsSub, cachePending, cache, storeResult, cacheOps, logoutPc, srvChats>>
msgVars == <<msgCurrentUser, messages, input, msgLoading, msgSub, srvMsgs, nextMsgId,
             clock, sentInput, dropped, sendOutcome, openChat, chatRecs, sentIn>>
vars == <<keyVars, dirVars, listVars, msgVars>>
notDir == <<keyVars, listVars, msgVars>>
notKey == <<dirVars, listVars, msgVars>>
notList == <<keyVars, dirVars, msgVars>>
notMsg == <<keyVars, dirVars, listVars>>

----------------------------------------------------------------------------
\* Bounds of the model
MaxIdLen == 2        \* longest participant id SpecKey draws
MaxChats == 3        \* most documents the chats collection grows to
MaxListDocs == 2     \* most chat documents the ChatList queries see
MaxMsgs == 2         \* most message documents created
MaxClock == 2        \* last server timestamp assigned

\* Program constants
Underscore == 95     \* '_' of members.join('_')

----------------------------------------------------------------------------
\* Strings

Alphabet == {49, 50, 97}          \* '1', '2', 'a'

RECURSIVE StrLess(_, _)
\* s < t on strings: code unit by code unit, a proper prefix first
StrLess(s, t) ==
  IF t = <<>> THEN FALSE
  ELSE IF s = <<>> THEN TRUE
  ELSE IF Head(s) < Head(t) THEN TRUE
  ELSE IF Head(t) < Head(s) THEN FALSE
  ELSE StrLess(Tail(s), Tail(t))

\* a mutant of SortPair: the array as given, unsorted
SortPairUnsorted(arr) == arr

\* [x, y].sort(): default comparator, ascending by code units
SortPair(arr) ==
  IF StrLess(arr[2], arr[1]) THEN <<arr[2], arr[1]>> ELSE arr

\* members.join('_')
JoinMembers(members) == members[1] \o <<Underscore>> \o members[2]

\* const members = [currentUser.uid, otherUser.uid].sort()
CanonicalMembers(self, other) == SortPair(<<self, other>>)

\* const chatId = members.join('_')
CanonicalKey(self, other) == JoinMembers(CanonicalMembers(self, other))

Ids == UNION {[1..n -> Alphabet] : n \in 1..MaxIdLen}

NoResult == [done |-> FALSE]

----------------------------------------------------------------------------
\* The directory (AllUsers) and get-or-create

NoUser == <<>>
U1 == <<85, 49>>     \* "U1"
U2 == <<85, 50>>     \* "U2"
U3 == <<85, 51>>     \* "U3"
Devices == {1, 2}
DeviceUser(d) == IF d = 1 THEN U1 ELSE U2
\* the users collection, a snapshot of it in document id order
UserDocs == <<U1, U2, U3>>
NoChat == 0
NoCall == [other |-> NoUser, members |-> <<>>, result |-> NoChat]
Variants == {"equality", "scan"}

RECURSIVE ForEachPushOthers(_, _)
\* querySnapshot.forEach(doc => { if (doc.id !== uid) usersList.push(...) })
ForEachPushOthers(docs, uid) ==
  IF docs = <<>> THEN <<>>
  ELSE IF Head(docs) # uid
       THEN <<Head(docs)>> \o ForEachPushOthers(Tail(docs), uid)
       ELSE ForEachPushOthers(Tail(docs), uid)

\* the uid fetchUsers' callback compares with: the user handed to fetchUsers
\* ("scan"), or currentUser of the render that defined the effect's closure,
\* which is null ("equality")
CapturedUid(v, user) == IF v = "scan" THEN user ELSE NoUser

Includes(members, uid) == \E i \in 1..Len(members) : members[i] = uid

\* a mutant of EqualityMatches: the stored pair compared with the unsorted pair
EqualityMatchesUnsorted(docs, self, other, members) ==
  {i \in 1..Len(docs) : docs[i].members = <<self, other>>}

\* where('members', '==', members): the documents the query matches
EqualityMatches(docs, self, other, members) ==
  {i \in 1..Len(docs) : docs[i].members = members}

\* where('members','array-contains', uid), then the forEach test
ScanMatches(docs, self, other) ==
  {i \in 1..Len(docs) :
      /\ Includes(docs[i].members, self)
      /\ Len(docs[i].members) = 2
      /\ Includes(docs[i].members, self)
      /\ Includes(docs[i].members, other)}

Matches(v, docs, self, c) ==
  IF v = "equality" THEN EqualityMatches(docs, self, c.other, c.members)
  ELSE ScanMatches(docs, self, c.other)

DirInit ==
  /\ variant \in [Devices -> Variants]
  /\ dirCurrentUser = [d \in Devices |-> NoUser]
  /\ users = [d \in Devices |-> <<>>]
  /\ dirLoading = [d \in Devices |-> TRUE]
  /\ usersSub = [d \in Devices |-> [open |-> FALSE, uid |-> NoUser]]
  /\ pc = [d \in Devices |-> "idle"]
  /\ call = [d \in Devices |-> NoCall]
  /\ signedIn = [d \in Devices |-> TRUE]
  /\ chatDocs = <<>>

KeyIdle ==
  /\ ka = NoUser
  /\ kb = NoUser
  /\ kout = NoResult

\* onAuthStateChanged callback with the signed-in user, and fetchUsers
DirAuthCallback(d) ==
  /\ dirCurrentUser[d] = NoUser
  /\ dirCurrentUser' = [dirCurrentUser EXCEPT ![d] = DeviceUser(d)]
  /\ dirLoading' = [dirLoading EXCEPT ![d] = TRUE]
  /\ usersSub' = [usersSub EXCEPT
                    ![d] = [open |-> TRUE, uid |-> CapturedUid(variant[d], DeviceUser(d))]]
  /\ UNCHANGED <<variant, users, pc, call, chatDocs>>
  /\ UNCHANGED signedIn
  /\ UNCHANGED notDir

\* the users listener's snapshot callback
UsersSnapshot(d) ==
  /\ usersSub[d].open
  /\ users' = [users EXCEPT ![d] = ForEachPushOthers(UserDocs, usersSub[d].uid)]
  /\ dirLoading' = [dirLoading EXCEPT ![d] = FALSE]
  /\ UNCHANGED <<variant, dirCurrentUser, usersSub, pc, call, chatDocs>>
  /\ UNCHANGED signedIn
  /\ UNCHANGED notDir

\* the users listener's error callback; the listener is over after an error
UsersError(d) ==
  /\ usersSub[d].open
  /\ dirLoading' = [dirLoading EXCEPT ![d] = FALSE]
  /\ usersSub' = [usersSub EXCEPT ![d].open = FALSE]
  /\ UNCHANGED <<variant, dirCurrentUser, users, pc, call, chatDocs>>
  /\ UNCHANGED signedIn
  /\ UNCHANGED notDir

\* handleCreateChat(otherUser) up to its await getDocs(q); otherUser is a row
\* of the rendered list
HandleCreateChat(d, other) ==
  /\ pc[d] = "idle"
  /\ signedIn[d]
  /\ ~dirLoading[d]
  /\ Includes(users[d], other)
  /\ dirCurrentUser[d] # NoUser
  /\ call' = [call EXCEPT ![d] =
                [other |-> other,
                 members |-> IF variant[d] = "equality"
                             THEN CanonicalMembers(dirCurrentUser[d], other)
                             ELSE <<>>,
                 result |-> NoChat]]
  /\ pc' = [pc EXCEPT ![d] = "query"]
  /\ UNCHANGED <<variant, dirCurrentUser, users, dirLoading, usersSub, chatDocs>>
  /\ UNCHANGED signedIn
  /\ UNCHANGED notDir

\* getDocs resolves with a document: router.push to the existing chat.
\* Document ids are generated at random, so which of several matching
\* documents is first (limit(1)) or last (forEach) is any of them.
QueryFound(d) ==
  /\ pc[d] = "query"
  /\ \E i \in Matches(variant[d], chatDocs, dirCurrentUser[d], call[d]) :
        call' = [call EXCEPT ![d].result = i]
  /\ pc' = [pc EXCEPT ![d] = "idle"]
  /\ UNCHANGED <<variant, dirCurrentUser, users, dirLoading, usersSub, chatDocs>>
  /\ UNCHANGED signedIn
  /\ UNCHANGED notDir

\* getDocs resolves empty: up to await addDoc(chatsRef, ...)
QueryEmpty(d) ==
  /\ pc[d] = "query"
  /\ Matches(variant[d], chatDocs, dirCurrentUser[d], call[d]) = {}
  /\ call' = [call EXCEPT ![d].members = CanonicalMembers(dirCurrentUser[d], call[d].other)]
  /\ pc' = [pc EXCEPT ![d] = "create"]
  /\ UNCHANGED <<variant, dirCurrentUser, users, dirLoading, usersSub, chatDocs>>
  /\ UNCHANGED signedIn
  /\ UNCHANGED notDir

\* addDoc(chatsRef) resolves: the chat document exists. "equality" opens it;
\* "scan" goes on to add the 'Chat started' message
CreateDone(d) ==
  /\ pc[d] = "create"
  /\ Len(chatDocs) < MaxChats
  /\ chatDocs' = Append(chatDocs, [members |-> call[d].members, started |-> FALSE])
  /\ IF variant[d] = "equality"
     THEN /\ call' = [call EXCEPT ![d].result = Len(chatDocs) + 1]
          /\ pc' = [pc EXCEPT ![d] = "idle"]
     ELSE /\ call' = call
          /\ pc' = [pc EXCEPT ![d] = "createMsg"]
  /\ UNCHANGED <<variant, dirCurrentUser, users, dirLoading, usersSub>>
  /\ UNCHANGED signedIn
  /\ UNCHANGED notDir

\* "scan": addDoc(messagesRef) resolves, router.push to the new chat, which
\* is the newest document this device created
CreateMsgDone(d) ==
  /\ pc[d] = "createMsg"
  /\ \E i \in 1..Len(chatDocs) :
        /\ chatDocs[i].members = call[d].members
        /\ ~chatDocs[i].started
        /\ chatDocs' = [chatDocs EXCEPT ![i].started = TRUE]
        /\ call' = [call EXCEPT ![d].result = i]
  /\ pc' = [pc EXCEPT ![d] = "idle"]
  /\ UNCHANGED <<variant, dirCurrentUser, users, dirLoading, usersSub>>
  /\ UNCHANGED signedIn
  /\ UNCHANGED notDir

\* an awaited call rejects: catch, console.error
CallFailed(d) ==
  /\ pc[d] # "idle"
  /\ pc' = [pc EXCEPT ![d] = "idle"]
  /\ UNCHANGED <<variant, dirCurrentUser, users, dirLoading, usersSub, call, chatDocs>>
  /\ UNCHANGED signedIn
  /\ UNCHANGED notDir

\* the device's user signs out while AllUsers, or what it started, is still
\* there: back to ChatList and its handleLogout's signOut. AllUsers' auth
\* callback only calls router.replace('/'); nothing is told to a running
\* handleCreateChat
DirSignOut(d) ==
  /\ signedIn[d]
  /\ dirCurrentUser[d] # NoUser
  /\ signedIn' = [signedIn EXCEPT ![d] = FALSE]
  /\ UNCHANGED <<variant, dirCurrentUser, users, dirLoading, usersSub, pc, call, chatDocs>>
  /\ UNCHANGED notDir

DirNext ==
  \/ \E d \in Devices : DirAuthCallback(d)
  \/ \E d \in Devices : UsersSnapshot(d)
  \/ \E d \in Devices : UsersError(d)
  \/ \E d \in Devices : \E other \in {U1, U2, U3} : HandleCreateChat(d, other)
  \/ \E d \in Devices : QueryFound(d)
  \/ \E d \in Devices : QueryEmpty(d)
  \/ \E d \in Devices : CreateDone(d)
  \/ \E d \in Devices : CreateMsgDone(d)
  \/ \E d \in Devices : CallFailed(d)

\* handleCreateChat with no concurrent caller: none is running on any device
HandleCreateChatAlone(d, other) ==
  /\ \A e \in Devices : pc[e] = "idle"
  /\ HandleCreateChat(d, other)

DirSeqNext ==
  \/ \E d \in Devices : DirAuthCallback(d)
  \/ \E d \in Devices : UsersSnapshot(d)
  \/ \E d \in Devices : UsersError(d)
  \/ \E d \in Devices : \E other \in {U1, U2, U3} : HandleCreateChatAlone(d, other)
  \/ \E d \in Devices : QueryFound(d)
  \/ \E d \in Devices : QueryEmpty(d)
  \/ \E d \in Devices : CreateDone(d)
  \/ \E d \in Devices : CreateMsgDone(d)
  \/ \E d \in Devices : CallFailed(d)

\* get-or-create calls one at a time, and sign-out
DirOutNext ==
  \/ \E d \in Devices : DirAuthCallback(d)
  \/ \E d \in Devices : UsersSnapshot(d)
  \/ \E d \in Devices : UsersError(d)
  \/ \E d \in Devices : \E other \in {U1, U2, U3} : HandleCreateChatAlone(d, other)
  \/ \E d \in Devices : QueryFound(d)
  \/ \E d \in Devices : QueryEmpty(d)
  \/ \E d \in Devices : CreateDone(d)
  \/ \E d \in Devices : CreateMsgDone(d)
  \/ \E d \in Devices : CallFailed(d)
  \/ \E d \in Devices : DirSignOut(d)

----------------------------------------------------------------------------
\* The canonical key as a pure computation over drawn ids

KeyInit ==
  /\ ka \in Ids
  /\ kb \in Ids
  /\ kout = NoResult

DirIdle ==
  /\ variant = [d \in Devices |-> "equality"]
  /\ dirCurrentUser = [d \in Devices |-> NoUser]
  /\ users = [d \in Devices |-> <<>>]
  /\ dirLoading = [d \in Devices |-> TRUE]
  /\ usersSub = [d \in Devices |-> [open |-> FALSE, uid |-> NoUser]]
  /\ pc = [d \in Devices |-> "idle"]
  /\ call = [d \in Devices |-> NoCall]
  /\ signedIn = [d \in Devices |-> TRUE]
  /\ chatDocs = <<>>

\* ka starts a chat with kb, and kb with ka
KeyApply ==
  /\ ~kout.done
  /\ kout' = [done |-> TRUE,
              membersAB |-> CanonicalMembers(ka, kb),
              keyAB |-> CanonicalKey(ka, kb),
              membersBA |-> CanonicalMembers(kb, ka),
              keyBA |-> CanonicalKey(kb, ka)]
  /\ UNCHANGED <<ka, kb>>
  /\ UNCHANGED notKey

KeyNext == KeyApply


----------------------------------------------------------------------------
\* One device's session: identity service, navigation stack, ChatList, cache

Accounts == {U1, U2}
Unseen == <<0>>                       \* the auth listener has not been called yet
NoEntry == [present |-> FALSE, value |-> <<>>]
NoOps == [load |-> "none", clear |-> "none"]
NoSub == [open |-> FALSE, uid |-> NoUser, fresh |-> FALSE, applied |-> FALSE]
ListVariants == {"cached", "plain"}

\* where('members', 'array-contains', uid), orderBy('lastMessageTimestamp', 'desc')
QueryChats(docs, uid) == SelectSeq(docs, LAMBDA doc : Includes(doc.members, uid))

RECURSIVE ForEachPushChats(_)
\* cached ChatList: querySnapshot.forEach(docSnap => { if
\* (!data.lastMessageTimestamp) return; chatList.push({...}) })
ForEachPushChats(docs) ==
  IF docs = <<>> THEN <<>>
  ELSE IF ~Head(docs).hasTs THEN ForEachPushChats(Tail(docs))
  ELSE <<[id |-> Head(docs).id, ts |-> "Timestamp"]>> \o ForEachPushChats(Tail(docs))

RECURSIVE ForEachPushChatsPlain(_)
\* plain ChatList: every document, lastMessageTimestamp || null
ForEachPushChatsPlain(docs) ==
  IF docs = <<>> THEN <<>>
  ELSE <<[id |-> Head(docs).id,
          ts |-> IF Head(docs).hasTs THEN "Timestamp" ELSE "null"]>>
       \o ForEachPushChatsPlain(Tail(docs))

\* JSON.stringify(chatList): a Timestamp is written as a plain object
Stringify(list) ==
  [i \in 1..Len(list) |->
     [id |-> list[i].id, ts |-> IF list[i].ts = "Timestamp" THEN "plain" ELSE list[i].ts]]

\* JSON.parse(cached): what was written, plain objects staying plain
Parse(text) == text

ListStateInit ==
  /\ currentUser = NoUser
  /\ authLoading = TRUE
  /\ chats = <<>>
  /\ loading = TRUE
  /\ refreshing = FALSE

ListInit ==
  /\ listVariant \in ListVariants
  /\ authUser = NoUser
  /\ route = "login"
  /\ listMounted = FALSE
  /\ listAuthSeen = Unseen
  /\ ListStateInit
  /\ chatsSub = NoSub
  /\ cachePending = FALSE
  /\ cache = NoEntry
  /\ storeResult = "none"
  /\ cacheOps = NoOps
  /\ logoutPc = "idle"
  /\ srvChats = <<>>

ListIdle ==
  /\ listVariant = "cached"
  /\ authUser = NoUser
  /\ route = "login"
  /\ listMounted = FALSE
  /\ listAuthSeen = Unseen
  /\ ListStateInit
  /\ chatsSub = NoSub
  /\ cachePending = FALSE
  /\ cache = NoEntry
  /\ storeResult = "none"
  /\ cacheOps = NoOps
  /\ logoutPc = "idle"
  /\ srvChats = <<>>

\* a ChatList is mounted: its useState initial values, its effects started
MountList ==
  /\ listMounted' = TRUE
  /\ listAuthSeen' = Unseen
  /\ currentUser' = NoUser
  /\ authLoading' = (listVariant = "cached")
  /\ chats' = <<>>
  /\ loading' = TRUE
  /\ refreshing' = FALSE
  /\ chatsSub' = NoSub
  /\ cachePending' = (listVariant = "cached")

\* the ChatList is unmounted: the effects' cleanups (unsubscribeAuth,
\* unsubscribeChats); its state is gone
UnmountList ==
  /\ listMounted' = FALSE
  /\ listAuthSeen' = Unseen
  /\ currentUser' = NoUser
  /\ authLoading' = TRUE
  /\ chats' = <<>>
  /\ loading' = TRUE
  /\ refreshing' = FALSE
  /\ chatsSub' = NoSub
  /\ cachePending' = FALSE

\* router.replace('/'): the screen on top is replaced by the login screen;
\* a ChatList below the top stays mounted
ReplaceWithLogin ==
  /\ route' = "login"
  /\ IF route = "chatlist" THEN UnmountList
     ELSE UNCHANGED <<listMounted, listAuthSeen, listState, chatsSub, cachePending>>

\* the auth listeners of the mounted screens have been told the present user
AuthSettled == listMounted => listAuthSeen = authUser

\* LoginPage handleLogin: signInWithEmailAndPassword, router.replace('/chat')
HandleLogin(u) ==
  /\ route = "login"
  /\ authUser = NoUser
  /\ logoutPc = "idle"
  /\ AuthSettled
  /\ authUser' = u
  /\ route' = "chat"
  /\ UNCHANGED <<listVariant, listMounted, listAuthSeen, listState, chatsSub,
                 cachePending, cache, logoutPc, srvChats>>
  /\ UNCHANGED storeResult
  /\ UNCHANGED cacheOps
  /\ UNCHANGED notList

\* SignupPage handleSignup: createUserWithEmailAndPassword, router.replace('/chatlist')
HandleSignup(u) ==
  /\ route = "login"
  /\ authUser = NoUser
  /\ logoutPc = "idle"
  /\ ~listMounted
  /\ authUser' = u
  /\ route' = "chatlist"
  /\ MountList
  /\ UNCHANGED <<listVariant, cache, logoutPc, srvChats>>
  /\ UNCHANGED storeResult
  /\ cacheOps' = [cacheOps EXCEPT !.load = "none"]
  /\ UNCHANGED notList

\* ChatScreen back button: router.replace('/chatlist')
ChatBack ==
  /\ route = "chat"
  /\ ~listMounted
  /\ route' = "chatlist"
  /\ MountList
  /\ UNCHANGED <<listVariant, authUser, cache, logoutPc, srvChats>>
  /\ UNCHANGED storeResult
  /\ cacheOps' = [cacheOps EXCEPT !.load = "none"]
  /\ UNCHANGED notList

\* ChatList's onAuthStateChanged callback, and the subscription effect that
\* its state changes re-run (cleanup of the listener of the run before, then
\* setLoading(true) and a new listener for the user)
ListAuthCallback ==
  /\ listMounted
  /\ listAuthSeen # authUser
  /\ IF authUser # NoUser
     THEN /\ listAuthSeen' = authUser
          /\ currentUser' = authUser
          /\ authLoading' = FALSE
          /\ loading' = TRUE
          /\ chatsSub' = [open |-> TRUE, uid |-> authUser, fresh |-> TRUE,
                          applied |-> chatsSub.applied]
          /\ UNCHANGED <<route, listMounted, chats, refreshing, cachePending>>
     ELSE IF route = "chatlist"
          THEN ReplaceWithLogin
          ELSE /\ route' = "login"
               /\ listAuthSeen' = authUser
               /\ authLoading' = FALSE
               /\ UNCHANGED <<listMounted, currentUser, chats, loading, refreshing,
                              chatsSub, cachePending>>
  /\ UNCHANGED <<listVariant, authUser, cache, logoutPc, srvChats>>
  /\ UNCHANGED storeResult
  /\ UNCHANGED cacheOps
  /\ UNCHANGED notList

\* loadCachedChats after its await AsyncStorage.getItem; a rejected getItem
\* is caught and changes nothing
LoadCachedChats ==
  /\ listMounted
  /\ cachePending
  /\ cachePending' = FALSE
  /\ \E ok \in BOOLEAN :
       /\ cacheOps' = [cacheOps EXCEPT !.load = IF ok THEN "ok" ELSE "failed"]
       /\ IF ok /\ cache.present
          THEN /\ chats' = Parse(cache.value)
               /\ loading' = FALSE
          ELSE UNCHANGED <<chats, loading>>
  /\ UNCHANGED <<listVariant, authUser, route, listMounted, listAuthSeen, currentUser,
                 authLoading, refreshing, chatsSub, cache, logoutPc, srvChats>>
  /\ UNCHANGED storeResult
  /\ UNCHANGED notList

\* a mutant of SnapshotList: the snapshot's entries pushed onto the list held
SnapshotListMerged(v, docs) ==
  chats \o (IF v = "cached" THEN ForEachPushChats(docs) ELSE ForEachPushChatsPlain(docs))

\* the chatList a snapshot callback builds
SnapshotList(v, docs) ==
  IF v = "cached" THEN ForEachPushChats(docs) ELSE ForEachPushChatsPlain(docs)

\* the chats listener's snapshot callback; "cached" then stores the list with
\* AsyncStorage.setItem, whose failure is caught
ChatsSnapshot ==
  /\ chatsSub.open
  /\ chatsSub.fresh
  /\ chatsSub' = [chatsSub EXCEPT !.fresh = FALSE, !.applied = TRUE]
  /\ chats' = SnapshotList(listVariant, QueryChats(srvChats, chatsSub.uid))
  /\ loading' = FALSE
  /\ IF listVariant = "cached"
     THEN /\ refreshing' = FALSE
          /\ \E stored \in BOOLEAN :
               /\ storeResult' = IF stored THEN "ok" ELSE "failed"
               /\ cache' = IF stored THEN [present |-> TRUE, value |-> Stringify(chats')]
                            ELSE cache
     ELSE /\ storeResult' = "none"
          /\ UNCHANGED <<refreshing, cache>>
  /\ UNCHANGED <<listVariant, authUser, route, listMounted, listAuthSeen, currentUser,
                 authLoading, cachePending, logoutPc, srvChats>>
  /\ UNCHANGED cacheOps
  /\ UNCHANGED notList

\* a mutant of ChatsError: the error callback also empties the list
ChatsErrorClearing ==
  /\ chatsSub.open
  /\ chatsSub' = [chatsSub EXCEPT !.open = FALSE, !.fresh = FALSE]
  /\ chats' = <<>>
  /\ loading' = FALSE
  /\ refreshing' = FALSE
  /\ UNCHANGED <<listVariant, authUser, route, listMounted, listAuthSeen, currentUser,
                 authLoading, cachePending, cache, logoutPc, srvChats>>
  /\ UNCHANGED storeResult
  /\ UNCHANGED cacheOps
  /\ UNCHANGED notList

\* the chats listener's error callback; the listener is over after an error
ChatsError ==
  /\ chatsSub.open
  /\ chatsSub' = [chatsSub EXCEPT !.open = FALSE, !.fresh = FALSE]
  /\ loading' = FALSE
  /\ refreshing' = FALSE
  /\ UNCHANGED <<listVariant, authUser, route, listMounted, listAuthSeen, currentUser,
                 authLoading, chats, cachePending, cache, logoutPc, srvChats>>
  /\ UNCHANGED storeResult
  /\ UNCHANGED cacheOps
  /\ UNCHANGED notList

\* the list is on screen: not behind the loading indicator
ListShown == route = "chatlist" /\ ~loading /\ ~authLoading

\* RefreshControl onRefresh (cached ChatList)
OnRefresh ==
  /\ listVariant = "cached"
  /\ ListShown
  /\ ~refreshing
  /\ refreshing' = TRUE
  /\ UNCHANGED <<listVariant, authUser, route, listMounted, listAuthSeen, currentUser,
                 authLoading, chats, loading, chatsSub, cachePending, cache, logoutPc,
                 srvChats>>
  /\ UNCHANGED storeResult
  /\ UNCHANGED cacheOps
  /\ UNCHANGED notList

\* openChat(item.id): router.push('/chat?chatId=...')
OpenChat ==
  /\ ListShown
  /\ chats # <<>>
  /\ route' = "chat"
  /\ UNCHANGED <<listVariant, authUser, listMounted, listAuthSeen, listState, chatsSub,
                 cachePending, cache, logoutPc, srvChats>>
  /\ UNCHANGED storeResult
  /\ UNCHANGED cacheOps
  /\ UNCHANGED notList

\* handleNewChat: router.push('/all-users')
HandleNewChat ==
  /\ route = "chatlist"
  /\ route' = "allusers"
  /\ UNCHANGED <<listVariant, authUser, listMounted, listAuthSeen, listState, chatsSub,
                 cachePending, cache, logoutPc, srvChats>>
  /\ UNCHANGED storeResult
  /\ UNCHANGED cacheOps
  /\ UNCHANGED notList

\* ChatList handleLogout up to its second await: signOut has resolved.
\* "cached" goes on to removeItem; "plain" calls router.replace('/')
ListLogout ==
  /\ route = "chatlist"
  /\ logoutPc = "idle"
  /\ authUser # NoUser
  /\ authUser' = NoUser
  /\ IF listVariant = "cached"
     THEN /\ logoutPc' = "signedOut"
          /\ UNCHANGED <<route, listMounted, listAuthSeen, listState, chatsSub, cachePending>>
     ELSE /\ logoutPc' = logoutPc
          /\ ReplaceWithLogin
  /\ UNCHANGED <<listVariant, cache, srvChats>>
  /\ UNCHANGED storeResult
  /\ UNCHANGED cacheOps
  /\ UNCHANGED notList

\* cached ChatList handleLogout, after signOut: AsyncStorage.removeItem and
\* router.replace('/'); a rejected removeItem is caught, and nothing follows
LogoutRemove ==
  /\ logoutPc = "signedOut"
  /\ logoutPc' = "idle"
  /\ \E ok \in BOOLEAN :
       /\ cacheOps' = [cacheOps EXCEPT !.clear = IF ok THEN "ok" ELSE "failed"]
       /\ IF ok
          THEN /\ cache' = NoEntry
               /\ ReplaceWithLogin
          ELSE UNCHANGED <<cache, route, listMounted, listAuthSeen, listState, chatsSub,
                           cachePending>>
  /\ UNCHANGED <<listVariant, authUser, srvChats>>
  /\ UNCHANGED storeResult
  /\ UNCHANGED notList

\* ChatScreen handleLogout: signOut, router.replace('/')
ChatLogout ==
  /\ route = "chat"
  /\ authUser # NoUser
  /\ authUser' = NoUser
  /\ route' = "login"
  /\ UNCHANGED <<listVariant, listMounted, listAuthSeen, listState, chatsSub,
                 cachePending, cache, logoutPc, srvChats>>
  /\ UNCHANGED storeResult
  /\ UNCHANGED cacheOps
  /\ UNCHANGED notList

\* the listener has something new to deliver when its query's result changed
Notified(newDocs) ==
  [chatsSub EXCEPT !.fresh =
     chatsSub.fresh \/ (chatsSub.open /\
        QueryChats(newDocs, chatsSub.uid) # QueryChats(srvChats, chatsSub.uid))]

NoChatFor(members) == \A i \in 1..Len(srvChats) : srvChats[i].members # members
HasPending == srvChats # <<>> /\ ~Head(srvChats).hasTs

\* AllUsers handleCreateChat on this device, at its addDoc(chatsRef): the new
\* document is in the local view at once, lastMessageTimestamp still
\* unresolved (read as null) and ordered first
LocalAddChat(other) ==
  /\ route = "allusers"
  /\ authUser # NoUser
  /\ other # authUser
  /\ Len(srvChats) < MaxListDocs
  /\ ~HasPending
  /\ NoChatFor(CanonicalMembers(authUser, other))
  /\ srvChats' = <<[id |-> Len(srvChats) + 1,
                    members |-> CanonicalMembers(authUser, other),
                    hasTs |-> FALSE]>> \o srvChats
  /\ chatsSub' = Notified(srvChats')
  /\ UNCHANGED <<listVariant, authUser, route, listMounted, listAuthSeen, listState,
                 cachePending, cache, logoutPc>>
  /\ UNCHANGED storeResult
  /\ UNCHANGED cacheOps
  /\ UNCHANGED notList

\* the addDoc resolves: the server has set lastMessageTimestamp; router.push
\* to the chat
AddChatAcked ==
  /\ route = "allusers"
  /\ HasPending
  /\ srvChats' = [srvChats EXCEPT ![1].hasTs = TRUE]
  /\ chatsSub' = Notified(srvChats')
  /\ route' = "chat"
  /\ UNCHANGED <<listVariant, authUser, listMounted, listAuthSeen, listState,
                 cachePending, cache, logoutPc>>
  /\ UNCHANGED storeResult
  /\ UNCHANGED cacheOps
  /\ UNCHANGED notList

\* another device's handleCreateChat has created a chat: newest of the
\* documents whose timestamp is set
RemoteAddChat(u, other) ==
  /\ u # other
  /\ Len(srvChats) < MaxListDocs
  /\ NoChatFor(CanonicalMembers(u, other))
  /\ LET doc == [id |-> Len(srvChats) + 1,
                 members |-> CanonicalMembers(u, other),
                 hasTs |-> TRUE]
     IN srvChats' = IF HasPending
                    THEN <<Head(srvChats), doc>> \o Tail(srvChats)
                    ELSE <<doc>> \o srvChats
  /\ chatsSub' = Notified(srvChats')
  /\ UNCHANGED <<listVariant, authUser, route, listMounted, listAuthSeen, listState,
                 cachePending, cache, logoutPc>>
  /\ UNCHANGED storeResult
  /\ UNCHANGED cacheOps
  /\ UNCHANGED notList

ListNext ==
  \/ \E u \in Accounts : HandleLogin(u)
  \/ \E u \in Accounts : HandleSignup(u)
  \/ ChatBack
  \/ ListAuthCallback
  \/ LoadCachedChats
  \/ ChatsSnapshot
  \/ ChatsError
  \/ OnRefresh
  \/ OpenChat
  \/ HandleNewChat
  \/ ListLogout
  \/ LogoutRemove
  \/ ChatLogout
  \/ \E other \in {U1, U2, U3} : LocalAddChat(other)
  \/ AddChatAcked
  \/ \E u \in Accounts : \E other \in {U1, U2, U3} : RemoteAddChat(u, other)

----------------------------------------------------------------------------
\* ChatScreen: the message list and sendMessage

Space == <<32>>
Inputs == {<<>>, Space, <<104>>, Space \o <<104>>}   \* "", " ", "h", " h"
NoTs == 0            \* a timestamp the server has not set: null, toDate() undefined
Me == U1
Peer == U2
ChatIds == {1, 2}    \* the chats of Me and Peer that a route can name
GeneralChat == 0     \* the chat of the literal path chats/general_chat/messages

CreatedAt == 0       \* the server time the chats were created at, before any message

\* a chat document as handleCreateChat's addDoc leaves it (part_002)
CreatedChat == [lastMessageText |-> <<>>, lastMessageTimestamp |-> CreatedAt]

\* the chat whose messages collection ChatScreen, mounted for chatId, reads
\* and writes
MessagesChat(chatId) == GeneralChat

IsWhite(c) == c = 32

RECURSIVE TrimStart(_)
TrimStart(str) ==
  IF str # <<>> /\ IsWhite(Head(str)) THEN TrimStart(Tail(str)) ELSE str

RECURSIVE TrimEnd(_)
TrimEnd(str) ==
  IF str # <<>> /\ IsWhite(str[Len(str)])
  THEN TrimEnd(SubSeq(str, 1, Len(str) - 1)) ELSE str

\* a mutant of Trim: the input as typed
TrimNothing(str) == str

\* String.prototype.trim
Trim(str) == TrimEnd(TrimStart(str))

RECURSIVE ForEachPushMsgs(_, _)
\* querySnapshot.forEach(doc => msgs.push({id, text, userId, timestamp, sender}))
ForEachPushMsgs(docs, uid) ==
  IF docs = <<>> THEN <<>>
  ELSE <<[id |-> Head(docs).id,
          text |-> Head(docs).text,
          userId |-> Head(docs).userId,
          timestamp |-> Head(docs).ts,
          sender |-> IF Head(docs).userId = uid THEN "me" ELSE "other"]>>
       \o ForEachPushMsgs(Tail(docs), uid)

\* a mutant of SnapshotMessages: the snapshot's entries pushed onto the list held
SnapshotMessagesMerged(docs, uid) == messages \o ForEachPushMsgs(docs, uid)

\* the msgs a snapshot callback gives to setMessages
SnapshotMessages(docs, uid) == ForEachPushMsgs(docs, uid)

\* a mutant of ShownDocs: documents whose timestamp is unset are left out
ShownDocsWithTs(docs) == SelectSeq(docs, LAMBDA doc : doc.ts # NoTs)

\* the documents of a snapshot that the callback turns into list entries
ShownDocs(docs) == docs

Confirmed(docs) == SelectSeq(docs, LAMBDA doc : doc.ts # NoTs)
Pending(docs) == SelectSeq(docs, LAMBDA doc : doc.ts = NoTs)
Without(docs, id) == SelectSeq(docs, LAMBDA doc : doc.id # id)

\* orderBy('timestamp', 'asc') of the documents with doc added: doc among the
\* documents whose timestamp is set, at position p of them; documents of one
\* timestamp are in document id order, and ids are generated at random
InsertAt(docs, doc, p) ==
  SubSeq(Confirmed(docs), 1, p - 1) \o <<doc>>
    \o SubSeq(Confirmed(docs), p, Len(Confirmed(docs))) \o Pending(docs)

Ascending(docs) ==
  \A i, j \in 1..Len(docs) :
     (i < j /\ docs[i].ts # NoTs /\ docs[j].ts # NoTs) => docs[i].ts <= docs[j].ts

\* the timestamps the server may assign next
NextTimes == {t \in {clock, clock + 1} : t >= 1 /\ t <= MaxClock}

MsgNotified == [msgSub EXCEPT !.fresh = msgSub.open]

MsgInit ==
  /\ msgCurrentUser = NoUser
  /\ messages = <<>>
  /\ input = <<>>
  /\ msgLoading = TRUE
  /\ msgSub = [open |-> FALSE, fresh |-> FALSE]
  /\ srvMsgs = <<>>
  /\ nextMsgId = 0
  /\ clock = 0
  /\ sentInput = <<>>
  /\ dropped = FALSE
  /\ sendOutcome = "none"
  /\ openChat = 1
  /\ chatRecs = [chatId \in ChatIds |-> CreatedChat]
  /\ sentIn = <<>>

MsgIdle ==
  /\ msgCurrentUser = NoUser
  /\ messages = <<>>
  /\ input = <<>>
  /\ msgLoading = TRUE
  /\ msgSub = [open |-> FALSE, fresh |-> FALSE]
  /\ srvMsgs = <<>>
  /\ nextMsgId = 0
  /\ clock = 0
  /\ sentInput = <<>>
  /\ dropped = FALSE
  /\ sendOutcome = "none"
  /\ openChat = NoChat
  /\ chatRecs = [chatId \in ChatIds |-> CreatedChat]
  /\ sentIn = <<>>

\* ChatScreen's onAuthStateChanged callback with the signed-in user, and the
\* subscription effect: setLoading(true), onSnapshot
MsgAuthCallback ==
  /\ msgCurrentUser = NoUser
  /\ msgCurrentUser' = Me
  /\ msgLoading' = TRUE
  /\ msgSub' = [open |-> TRUE, fresh |-> TRUE]
  /\ UNCHANGED <<messages, input, srvMsgs, nextMsgId, clock, sentInput, dropped>>
  /\ UNCHANGED sendOutcome
  /\ UNCHANGED <<openChat, sentIn>>
  /\ UNCHANGED chatRecs
  /\ UNCHANGED notMsg

\* the messages listener's snapshot callback
MessagesSnapshot ==
  /\ msgSub.open
  /\ msgSub.fresh
  /\ msgSub' = [msgSub EXCEPT !.fresh = FALSE]
  /\ messages' = SnapshotMessages(ShownDocs(srvMsgs), msgCurrentUser)
  /\ msgLoading' = FALSE
  /\ srvMsgs' = [i \in 1..Len(srvMsgs) |-> [srvMsgs[i] EXCEPT !.announced = TRUE]]
  /\ dropped' = \E i \in 1..Len(messages) :
                   \A j \in 1..Len(messages') : messages'[j].id # messages[i].id
  /\ UNCHANGED <<msgCurrentUser, input, nextMsgId, clock, sentInput>>
  /\ UNCHANGED sendOutcome
  /\ UNCHANGED <<openChat, sentIn>>
  /\ UNCHANGED chatRecs
  /\ UNCHANGED notMsg

\* the messages listener's error callback; the listener is over after an error
MessagesError ==
  /\ msgSub.open
  /\ msgSub' = [open |-> FALSE, fresh |-> FALSE]
  /\ msgLoading' = FALSE
  /\ UNCHANGED <<msgCurrentUser, messages, input, srvMsgs, nextMsgId, clock,
                 sentInput, dropped>>
  /\ UNCHANGED sendOutcome
  /\ UNCHANGED <<openChat, sentIn>>
  /\ UNCHANGED chatRecs
  /\ UNCHANGED notMsg

\* TextInput onChangeText={setInput}
SetInput(str) ==
  /\ ~msgLoading
  /\ str # input
  /\ input' = str
  /\ UNCHANGED <<msgCurrentUser, messages, msgLoading, msgSub, srvMsgs, nextMsgId,
                 clock, sentInput, dropped>>
  /\ UNCHANGED sendOutcome
  /\ UNCHANGED <<openChat, sentIn>>
  /\ UNCHANGED chatRecs
  /\ UNCHANGED notMsg

\* sendMessage up to its return at line 555 or its await addDoc: the document
\* is in the device's view at once, its timestamp not yet set by the server
SendMessage ==
  /\ ~msgLoading
  /\ IF Trim(input) = <<>> \/ msgCurrentUser = NoUser
     THEN /\ sendOutcome' = "returned"
          /\ UNCHANGED <<srvMsgs, nextMsgId, sentInput, sentIn, msgSub>>
     ELSE /\ nextMsgId < MaxMsgs
          /\ sendOutcome' = "added"
          /\ nextMsgId' = nextMsgId + 1
          /\ srvMsgs' = Append(srvMsgs, [id |-> nextMsgId + 1,
                                         text |-> Trim(input),
                                         userId |-> msgCurrentUser,
                                         ts |-> NoTs,
                                         chat |-> MessagesChat(openChat),
                                         announced |-> FALSE,
                                         live |-> TRUE])
          /\ sentInput' = Append(sentInput, input)
          /\ sentIn' = Append(sentIn, openChat)
          /\ msgSub' = MsgNotified
  /\ UNCHANGED <<msgCurrentUser, messages, input, msgLoading, clock, dropped, openChat>>
  /\ UNCHANGED chatRecs
  /\ UNCHANGED notMsg

\* the addDoc of message id resolves: the server has set its timestamp;
\* setInput(''). An open listener has had the snapshot of the local write
\* before the write is acknowledged
SendAcked(id) ==
  /\ \E i \in 1..Len(srvMsgs) :
        /\ srvMsgs[i].id = id
        /\ srvMsgs[i].ts = NoTs
        /\ msgSub.open => srvMsgs[i].announced
        /\ \E t \in NextTimes :
           \E p \in 1..(Len(Confirmed(srvMsgs)) + 1) :
             /\ srvMsgs' = InsertAt(Without(srvMsgs, id), [srvMsgs[i] EXCEPT !.ts = t], p)
             /\ Ascending(srvMsgs')
             /\ clock' = t
        /\ input' = IF srvMsgs[i].live THEN <<>> ELSE input
  /\ msgSub' = MsgNotified
  /\ UNCHANGED <<msgCurrentUser, messages, msgLoading, nextMsgId, sentInput, dropped>>
  /\ UNCHANGED sendOutcome
  /\ UNCHANGED <<openChat, sentIn>>
  /\ UNCHANGED chatRecs
  /\ UNCHANGED notMsg

\* the addDoc of message id rejects: the local write is taken back; catch,
\* console.error
SendRejected(id) ==
  /\ \E i \in 1..Len(srvMsgs) :
        /\ srvMsgs[i].id = id
        /\ srvMsgs[i].ts = NoTs
        /\ msgSub.open => srvMsgs[i].announced
  /\ srvMsgs' = Without(srvMsgs, id)
  /\ msgSub' = MsgNotified
  /\ UNCHANGED <<msgCurrentUser, messages, input, msgLoading, nextMsgId, clock,
                 sentInput, dropped>>
  /\ UNCHANGED sendOutcome
  /\ UNCHANGED <<openChat, sentIn>>
  /\ UNCHANGED chatRecs
  /\ UNCHANGED notMsg

\* another device's sendMessage, from a ChatScreen mounted for chatId, has
\* been committed
RemoteMessage(text, chatId) ==
  /\ nextMsgId < MaxMsgs
  /\ nextMsgId' = nextMsgId + 1
  /\ \E t \in NextTimes :
     \E p \in 1..(Len(Confirmed(srvMsgs)) + 1) :
       /\ srvMsgs' = InsertAt(srvMsgs, [id |-> nextMsgId + 1,
                                        text |-> text,
                                        userId |-> Peer,
                                        ts |-> t,
                                        chat |-> MessagesChat(chatId),
                                        announced |-> FALSE,
                                        live |-> FALSE], p)
       /\ Ascending(srvMsgs')
       /\ clock' = t
  /\ sentInput' = Append(sentInput, text)
  /\ sentIn' = Append(sentIn, chatId)
  /\ msgSub' = MsgNotified
  /\ UNCHANGED <<msgCurrentUser, messages, input, msgLoading, dropped, openChat>>
  /\ UNCHANGED sendOutcome
  /\ UNCHANGED chatRecs
  /\ UNCHANGED notMsg

\* back (router.replace('/chatlist')) and openChat(chatId): this ChatScreen
\* unmounts, closing its listeners, and another mounts for chatId; what an
\* addDoc of the old screen does once it settles is lost with that screen
ReopenChat(chatId) ==
  /\ chatId # openChat
  /\ openChat' = chatId
  /\ msgCurrentUser' = NoUser
  /\ messages' = <<>>
  /\ input' = <<>>
  /\ msgLoading' = TRUE
  /\ msgSub' = [open |-> FALSE, fresh |-> FALSE]
  /\ srvMsgs' = [i \in 1..Len(srvMsgs) |-> [srvMsgs[i] EXCEPT !.live = FALSE]]
  /\ dropped' = FALSE
  /\ sendOutcome' = "none"
  /\ UNCHANGED <<nextMsgId, clock, sentInput, sentIn>>
  /\ UNCHANGED chatRecs
  /\ UNCHANGED notMsg

MsgNext ==
  \/ MsgAuthCallback
  \/ MessagesSnapshot
  \/ MessagesError
  \/ \E str \in Inputs : SetInput(str)
  \/ SendMessage
  \/ \E id \in 1..MaxMsgs : SendAcked(id)
  \/ \E id \in 1..MaxMsgs : SendRejected(id)
  \/ RemoteMessage(<<105>>, openChat)

\* the same with the other chats: ChatScreen is left and opened again for
\* another chat, and the peer sends from any of them
MsgNavNext ==
  \/ MsgAuthCallback
  \/ MessagesSnapshot
  \/ MessagesError
  \/ \E str \in Inputs : SetInput(str)
  \/ SendMessage
  \/ \E id \in 1..MaxMsgs : SendAcked(id)
  \/ \E id \in 1..MaxMsgs : SendRejected(id)
  \/ \E chatId \in ChatIds : RemoteMessage(<<105>>, chatId)
  \/ \E chatId \in ChatIds : ReopenChat(chatId)

----------------------------------------------------------------------------
\* Claims

\* the unordered pair a chat document is for
PairOf(doc) == {doc.members[i] : i \in 1..Len(doc.members)}

\* C1: whatever the interleaving of the get-or-create calls of the devices,
\* the chats collection never holds two documents for one unordered pair.
C1_AtMostOneChatPerPair ==
  \A i, j \in 1..Len(chatDocs) :
     i # j => PairOf(chatDocs[i]) # PairOf(chatDocs[j])

\* C2: with no concurrent caller, every get-or-create that returns gives the
\* id of the one chat document of its pair: the collection holds one document
\* per pair, and the id a call gave to router.push is that document's.
C2_SequentialGetOrCreateIdempotent ==
  /\ \A i, j \in 1..Len(chatDocs) :
        i # j => PairOf(chatDocs[i]) # PairOf(chatDocs[j])
  /\ \A d \in Devices :
        call[d].result # NoChat =>
          /\ call[d].result \in 1..Len(chatDocs)
          /\ PairOf(chatDocs[call[d].result]) = {dirCurrentUser[d], call[d].other}

\* C2's case: U1 and U2 each asked for the other, one after the other, and
\* both were given the same chat
C2_Witness ==
  /\ \A d \in Devices : pc[d] = "idle" /\ call[d].result # NoChat
  /\ call[1].other = U2
  /\ call[2].other = U1
  /\ call[1].result = call[2].result

\* C3: the sorted members pair and the joined key are the same whichever of
\* the two participants starts the chat.
C3_CanonicalKeySymmetric ==
  kout.done => /\ kout.membersAB = kout.membersBA
               /\ kout.keyAB = kout.keyBA

\* C3's case: two different ids, given in descending order, so that the sort
\* has exchanged them
C3_Witness ==
  /\ kout.done
  /\ ka # kb
  /\ kout.membersAB = <<kb, ka>>

\* C4: a get-or-create whose other participant is the current user is
\* rejected: no query for such a pair is in flight, no document is created
\* for it.
C4_SelfChatRejected ==
  /\ \A d \in Devices : pc[d] # "idle" => call[d].other # dirCurrentUser[d]
  /\ \A i \in 1..Len(chatDocs) : chatDocs[i].members[1] # chatDocs[i].members[2]

\* C5: once sign-out has happened, a snapshot delivered on the chats
\* listener (opened before the sign-out) changes neither the in-memory
\* conversation list nor the local cache.
C5_NoSnapshotEffectAfterSignOut ==
  [][(authUser = NoUser /\ ChatsSnapshot) => (chats' = chats /\ cache' = cache)]_vars

\* the ids of a sequence of documents or list entries, in order
IdsOf(seq) == [i \in 1..Len(seq) |-> seq[i].id]
\* what the chats listener delivers next
ChatsView == QueryChats(srvChats, chatsSub.uid)

\* C8 as stated: every snapshot replaces the list with the snapshot's full
\* contents, no document omitted, and a store of that same list is started.
C8_SnapshotFullContentsStored ==
  [][ChatsSnapshot =>
       /\ IdsOf(chats') = IdsOf(ChatsView)
       /\ storeResult' # "none"
       /\ storeResult' = "ok" => cache' = [present |-> TRUE, value |-> Stringify(chats')]
    ]_vars

\* C8 as amended: every snapshot replaces the list (nothing of the list held
\* before stays) with the snapshot's documents in the snapshot's order, the
\* cached ChatList leaving out the documents whose lastMessageTimestamp is
\* unset; the cached ChatList then starts a store of that same list, which
\* writes it or fails and leaves the cache; the plain ChatList starts none.
C8_SnapshotReplacesList ==
  [][ChatsSnapshot =>
       /\ IdsOf(chats') =
            IdsOf(SelectSeq(ChatsView,
                            LAMBDA doc : listVariant = "plain" \/ doc.hasTs))
       /\ \A i \in 1..Len(chats') :
            chats'[i].ts = IF \E j \in 1..Len(ChatsView) :
                                 ChatsView[j].id = chats'[i].id /\ ChatsView[j].hasTs
                           THEN "Timestamp" ELSE "null"
       /\ listVariant = "cached" =>
            /\ storeResult' \in {"ok", "failed"}
            /\ storeResult' = "ok" =>
                 cache' = [present |-> TRUE, value |-> Stringify(chats')]
            /\ storeResult' = "failed" => cache' = cache
       /\ listVariant = "plain" => (storeResult' = "none" /\ cache' = cache)
    ]_vars

\* C8's case: the cached ChatList has taken a snapshot of two documents, one
\* of them with its timestamp unset, over a list it held, and stored its list
C8_Witness ==
  /\ listVariant = "cached"
  /\ chatsSub.open /\ ~chatsSub.fresh
  /\ Len(ChatsView) = 2
  /\ \E j \in 1..2 : ~ChatsView[j].hasTs
  /\ Len(chats) = 1
  /\ storeResult = "ok"
  /\ cache = [present |-> TRUE, value |-> Stringify(chats)]

\* C6: in every state after a sign-out has completed and before the next
\* sign-in, the cache holds no conversation-list entry.
C6_CacheEmptyWhileSignedOut ==
  (authUser = NoUser /\ logoutPc = "idle") => ~cache.present

NoDupIds(list) ==
  \A i, j \in 1..Len(list) : list[i].id = list[j].id => i = j

InList(id) == \E i \in 1..Len(messages) : messages[i].id = id

\* the snapshot's documents as list entries, in the snapshot's order
SameAsSnapshot(list, docs) ==
  /\ Len(list) = Len(docs)
  /\ \A i \in 1..Len(list) :
        /\ list[i].id = docs[i].id
        /\ list[i].text = docs[i].text
        /\ list[i].userId = docs[i].userId
        /\ list[i].timestamp = docs[i].ts

\* C7: after a messages snapshot is applied, the exposed message list is that
\* snapshot's entries, all of them and no others, in the snapshot's order
\* (so entries of one timestamp stay in the order the snapshot has them, and
\* an entry of the list held before that the snapshot lacks is gone).
C7_ListEqualsLastSnapshot ==
  [][MessagesSnapshot => SameAsSnapshot(messages', srvMsgs)]_vars

\* a snapshot has been applied over a list that held an entry the snapshot
\* lacked, and the list is the snapshot
C7_Witness ==
  /\ msgSub.open
  /\ ~msgSub.fresh
  /\ dropped
  /\ messages # <<>>
  /\ SameAsSnapshot(messages, srvMsgs)

BodyOf(id) == IF id <= Len(sentInput) THEN sentInput[id] ELSE <<>>

\* str from its first to its last character that is not white space
Stripped(str) ==
  LET solid == {k \in 1..Len(str) : ~IsWhite(str[k])}
  IN  IF solid = {} THEN <<>>
      ELSE SubSeq(str, CHOOSE k \in solid : \A l \in solid : k <= l,
                       CHOOSE k \in solid : \A l \in solid : k >= l)

\* the server has accepted this device's message id
Appended(id) ==
  \E k \in 1..Len(srvMsgs) :
     srvMsgs[k].id = id /\ srvMsgs[k].userId = Me /\ srvMsgs[k].ts # NoTs

ShownWithBody(id, body) ==
  \E i \in 1..Len(messages) :
     /\ messages[i].id = id
     /\ messages[i].userId = Me
     /\ messages[i].text = body
     /\ messages[i].timestamp # NoTs

\* the timestamp a message gets is not less than that of any message the
\* collection already has
AckedNotBefore(id) ==
  \A i \in 1..Len(srvMsgs) :
  \A j \in 1..Len(srvMsgs') :
     (srvMsgs[i].ts # NoTs /\ srvMsgs'[j].id = id) => srvMsgs[i].ts <= srvMsgs'[j].ts

ListAscending ==
  \A i, j \in 1..Len(messages) :
     (i < j /\ messages[i].timestamp # NoTs /\ messages[j].timestamp # NoTs)
        => messages[i].timestamp <= messages[j].timestamp

\* C10 as stated: a message appended from input B as U1 is eventually, for a
\* live listener, an entry with userId U1 and text B and a timestamp not less
\* than that of any message already in the collection; the list is ascending
\* by timestamp in every state.
C10_AppendYieldsBody ==
  /\ []ListAscending
  /\ [][\A id \in 1..MaxMsgs : SendAcked(id) => AckedNotBefore(id)]_vars
  /\ \A id \in 1..MaxMsgs :
        (Appended(id) /\ msgSub.open) ~> (ShownWithBody(id, BodyOf(id)) \/ ~msgSub.open)

\* C10 amended: the entry's text is B with the white space at its ends
\* removed; the rest as stated.
C10_AppendYieldsTrimmedBody ==
  /\ []ListAscending
  /\ [][\A id \in 1..MaxMsgs : SendAcked(id) => AckedNotBefore(id)]_vars
  /\ \A id \in 1..MaxMsgs :
        (Appended(id) /\ msgSub.open)
           ~> (ShownWithBody(id, Stripped(BodyOf(id))) \/ ~msgSub.open)

\* a message sent from an input with white space at an end is shown,
\* confirmed, after an earlier message of the collection
C10_Witness ==
  /\ msgSub.open
  /\ \E i \in 2..Len(messages) :
        /\ ShownWithBody(messages[i].id, Stripped(BodyOf(messages[i].id)))
        /\ BodyOf(messages[i].id) # Stripped(BodyOf(messages[i].id))
        /\ messages[i - 1].timestamp # NoTs


\* C11: every chat document handleCreateChat creates stores its two members
\* in ascending order, so two documents of one pair of participants store the
\* same members value whichever of the two started the chat.
C11_MembersStoredSorted ==
  \A i \in 1..Len(chatDocs) :
     /\ Len(chatDocs[i].members) = 2
     /\ ~StrLess(chatDocs[i].members[2], chatDocs[i].members[1])
     /\ \A j \in 1..Len(chatDocs) :
           PairOf(chatDocs[i]) = PairOf(chatDocs[j])
              => chatDocs[i].members = chatDocs[j].members

\* U2, whose id sorts after U1's, has created the only chat, with U1
C11_Witness ==
  /\ call[1] = NoCall
  /\ pc[2] = "idle"
  /\ call[2].other = U1
  /\ call[2].result # NoChat
  /\ Len(chatDocs) = 1
  /\ chatDocs[1].members = <<U1, U2>>

\* C12: sendMessage with an input that is empty or only white space is
\* turned away at once: no message document is written and the message list
\* is what it was.
C12_BlankInputWritesNothing ==
  [][(SendMessage /\ Stripped(input) = <<>>) =>
        /\ sendOutcome' = "returned"
        /\ srvMsgs' = srvMsgs
        /\ nextMsgId' = nextMsgId
        /\ messages' = messages]_vars

\* sendMessage has returned at its test of a white-space input, over a list
\* that holds a message
C12_Witness ==
  /\ sendOutcome = "returned"
  /\ input = Space
  /\ messages # <<>>
  /\ IdsOf(messages) = IdsOf(srvMsgs)

\* C13: the message stream of the open chat is that chat's: a message sent
\* while ChatScreen is mounted for chatId is written to the messages
\* collection of chatId, and the message list holds only messages that were
\* sent in the chat ChatScreen is mounted for.
C13_StreamScopedToOpenChat ==
  /\ \A k \in 1..Len(srvMsgs) : srvMsgs[k].chat = sentIn[srvMsgs[k].id]
  /\ \A i \in 1..Len(messages) : sentIn[messages[i].id] = openChat

\* C14: what a handleCreateChat started before sign-out still has in flight
\* is dropped: once its user has signed out, the call creates no chat
\* document and opens no chat; all it does is end.
C14_InFlightDiscardedAfterSignOut ==
  [][\A d \in Devices :
        (~signedIn[d] /\ pc[d] # "idle" /\ pc'[d] # pc[d]) =>
           /\ pc'[d] = "idle"
           /\ call'[d].result = NoChat
           /\ chatDocs' = chatDocs]_vars

\* C15: once a chats snapshot has been applied to the list of a mounted
\* ChatList, the list changes only with the next snapshot: a loadCachedChats
\* that completes after the snapshot does not overwrite it.
C15_SnapshotStaysUntilNext ==
  [][(listMounted /\ chatsSub.applied /\ listMounted' /\ ~ChatsSnapshot)
        => chats' = chats]_vars

\* the chat document of a list entry is one whose members include uid
EntryIsOf(entry, uid) ==
  \E k \in 1..Len(srvChats) :
     srvChats[k].id = entry.id /\ Includes(srvChats[k].members, uid)

\* C16: the chat list on screen for the signed-in user holds only chats whose
\* members include that user; a list cached in another user's session is not
\* shown.
C16_ListOnlyOwnChats ==
  (ListShown /\ authUser # NoUser /\ currentUser = authUser)
     => \A i \in 1..Len(chats) : EntryIsOf(chats[i], authUser)

\* the last document of docs that was sent in chatId and has its timestamp
LastOf(docs, chatId) ==
  LET mine == SelectSeq(docs, LAMBDA doc : doc.ts # NoTs /\ sentIn[doc.id] = chatId)
  IN  mine[Len(mine)]

HasMessage(docs, chatId) ==
  \E k \in 1..Len(docs) : docs[k].ts # NoTs /\ sentIn[docs[k].id] = chatId

\* C17: every message the server has accepted in a chat has changed that
\* chat's document: lastMessageText is the text of the chat's latest message
\* and lastMessageTimestamp is that message's server timestamp.
C17_AppendUpdatesChatRecord ==
  \A chatId \in ChatIds :
     HasMessage(srvMsgs, chatId) =>
        /\ chatRecs[chatId].lastMessageText = LastOf(srvMsgs, chatId).text
        /\ chatRecs[chatId].lastMessageTimestamp = LastOf(srvMsgs, chatId).ts

\* C18: sendMessage does not wait for the server: when it has issued its
\* write the input is cleared, with the write not yet confirmed; and a write
\* the server rejects leaves the message list as it was.
C18_SendDoesNotWaitForServer ==
  [][/\ (SendMessage /\ sendOutcome' = "added") => input' = <<>>
     /\ \A id \in 1..MaxMsgs : SendRejected(id) => messages' = messages]_vars

\* C19: a listener's error callback leaves the list as it was: after the
\* chats listener's (the messages listener's) error callback the chat list
\* (message list) and the cache are what they were before it, and the
\* loading indicator is not shown.
C19_ErrorLeavesListAndCache ==
  [][/\ ChatsError =>
          (chats' = chats /\ cache' = cache /\ ~loading' /\ ~authLoading')
     /\ MessagesError =>
          (messages' = messages /\ cache' = cache /\ ~msgLoading')]_vars

\* the chats listener has ended with an error over a list and a cache entry
\* that a snapshot had filled
C19_Witness ==
  /\ listMounted
  /\ chatsSub.uid # NoUser
  /\ ~chatsSub.open
  /\ chatsSub.applied
  /\ chats # <<>>
  /\ cache.present
  /\ ~loading

\* C20: a failed cache operation is swallowed. After a getItem that failed
\* (or a stored text that did not parse) the list of that ChatList is empty
\* until a snapshot is applied; a snapshot whose setItem failed has still
\* replaced the list and cleared loading, the cache left as it was; and after
\* a removeItem that failed in handleLogout, a signed-out device that is not
\* yet on the entry screen has its way there pending (the rest of
\* handleLogout, or ChatList's auth callback, which calls router.replace('/')).
C20_CacheFailuresSwallowed ==
  /\ []((listMounted /\ cacheOps.load = "failed" /\ ~chatsSub.applied) => chats = <<>>)
  /\ [][(ChatsSnapshot /\ storeResult' = "failed") =>
           /\ IdsOf(chats') = IdsOf(SelectSeq(ChatsView, LAMBDA doc : doc.hasTs))
           /\ ~loading'
           /\ cache' = cache]_vars
  /\ []((cacheOps.clear = "failed" /\ authUser = NoUser /\ route # "login") =>
           (logoutPc = "signedOut" \/ (listMounted /\ listAuthSeen # authUser)))

\* the load, the store and the clear have each failed once, and the
\* signed-out device is on the entry screen
C20_Witness ==
  /\ cacheOps.load = "failed"
  /\ cacheOps.clear = "failed"
  /\ storeResult = "failed"
  /\ authUser = NoUser
  /\ route = "login"
  /\ ~listMounted

\* C21: when the caching ChatList has loaded a cache entry, then until its
\* first snapshot is applied the list it shows is the cached one, not hidden
\* behind the loading indicator, whatever the order of the load, the auth
\* callback and the start of the listener.
C21_CachedListShownUntilSnapshot ==
  (/\ listMounted
   /\ route = "chatlist"
   /\ authUser # NoUser
   /\ logoutPc = "idle"
   /\ cacheOps.load = "ok"
   /\ cache.present
   /\ ~chatsSub.applied)
     => (chats = Parse(cache.value) /\ ~loading /\ ~authLoading)

\* C22: the directory list a device shows never holds the device's own
\* signed-in user, whatever users snapshots have been applied, so
\* handleCreateChat is never called from it with the user's own row.
C22_DirectoryExcludesSelf ==
  \A d \in Devices :
     dirCurrentUser[d] # NoUser =>
        /\ ~Includes(users[d], dirCurrentUser[d])
        /\ call[d].other # dirCurrentUser[d]

\* C23: a listener a screen has opened is closed once the screen is gone or
\* its user has changed: after a device's user has signed out, which takes
\* AllUsers off the stack, the users listener AllUsers opened is not open.
C23_ListenersClosedAtTeardown ==
  \A d \in Devices : ~signedIn[d] => ~usersSub[d].open

\* C24: once onRefresh has set refreshing, refreshing is false again at some
\* later time, also when the chats do not change afterwards and the listener
\* has nothing more to deliver.
C24_RefreshingEventuallyCleared ==
  refreshing ~> ~refreshing

----------------------------------------------------------------------------
InitKey == KeyInit /\ DirIdle /\ ListIdle /\ MsgIdle
InitDir == DirInit /\ KeyIdle /\ ListIdle /\ MsgIdle
InitList == ListInit /\ KeyIdle /\ DirIdle /\ MsgIdle
InitMsg == MsgInit /\ KeyIdle /\ DirIdle /\ ListIdle

SpecKey == InitKey /\ [][KeyNext]_vars
SpecDir == InitDir /\ [][DirNext]_vars
SpecDirSeq == InitDir /\ [][DirSeqNext]_vars
SpecDirOut == InitDir /\ [][DirOutNext]_vars
SpecList == InitList /\ [][ListNext]_vars
\* what is pending on the device runs: a listener's snapshot is delivered, an
\* auth callback is called, a getItem or removeItem settles
FairSpecList ==
  /\ InitList
  /\ [][ListNext]_vars
  /\ WF_vars(ChatsSnapshot)
  /\ WF_vars(ListAuthCallback)
  /\ WF_vars(LoadCachedChats)
  /\ WF_vars(LogoutRemove)
SpecMsg == InitMsg /\ [][MsgNext]_vars
FairSpecMsg == InitMsg /\ [][MsgNext]_vars /\ WF_vars(MessagesSnapshot)
SpecMsgNav == InitMsg /\ [][MsgNavNext]_vars

\* either screen with its listener: a behaviour is one of ChatList's or one
\* of ChatScreen's
ChatScreenUp == openChat # NoChat
InitSubs == InitList \/ InitMsg
SubsNext ==
  \/ ~ChatScreenUp /\ ListNext
  \/ ChatScreenUp /\ MsgNext
SpecSubs == InitSubs /\ [][SubsNext]_vars

====
